---- MODULE Spec2Model ----
(***************************************************************************)
(* Model of the Gismo "Terrain Generator" component                        *)
(* (src/src/Gismo_Terrain Generator.py).                                   *)
(*                                                                         *)
(* The component is a script: its inputs are module globals set by the     *)
(* host before the script runs, and the main flow calls checkInputData,    *)
(* checkObjRasterFile, createTerrainMeshBrep,                              *)
(* split_createStand_colorTerrain and title_scalingRotating in sequence.   *)
(* Each of these calls is one action; pc is the position in the main flow. *)
(*                                                                         *)
(* Numbers.  The script runs under Python 2: an input is None, an int or   *)
(* a float, "/" between two ints is floor division, and None compares      *)
(* below every number.  A number is a record [t, h]: t its Python type,    *)
(* h its value in halves (h = 2 * value), so that fractional inputs exist. *)
(* Latitudes are integers in units of 0.00001 degree.                      *)
(***************************************************************************)
EXTENDS Integers, Sequences, FiniteSets, TLC

VARIABLES
    \* inputs of the component (module globals set by the host)
    radius_, type_, standThickness_, numOfContours_, north_, locationLatitudeD,
    \* what the run finds around it: the working folder at the start, the
    \* header of the reprojected raster, the projected location, and the
    \* answers of the geometry kernel
    filesAtStart, header, originPtProjected, kernel,
    \* main flow; _runIt is the input of that name once the flow has read it
    pc, exception, calls, printMsg, warnings, _runIt,
    \* results of checkInputData
    maxVisibilityRadiusM, _type, typeLabel, standThickness, numOfContours,
    northRad, northDeg, validInputData, stickyOrigin,
    \* results of checkObjRasterFile
    files, rasterFilePath, valid_Obj_or_Raster_file, clamp, downloads,
    branch, fetchFailed, inverse, region,
    \* results of the geometry stages
    locationPt, cuttingRadiusScaled, standBuilt, standDepth,
    terrainUnoriginUnscaledUnrotated, contoursInvokedWith,
    terrainPts, elevationM, terrain_MeshOrBrep_Splitted, contourPlanes,
    transforms, splitWith, contoursWith,
    \* outputs of the component
    terrain, elevationContours, title, elevation, origin

vars == << radius_, type_, standThickness_, numOfContours_, north_,
           locationLatitudeD, filesAtStart, header, originPtProjected, kernel,
           pc, exception, calls, printMsg, warnings, _runIt,
           maxVisibilityRadiusM, _type, typeLabel, standThickness, numOfContours,
           northRad, northDeg, validInputData, stickyOrigin,
           files, rasterFilePath, valid_Obj_or_Raster_file, clamp, downloads,
           branch, fetchFailed, inverse, region,
           locationPt, cuttingRadiusScaled, standBuilt, standDepth,
           terrainUnoriginUnscaledUnrotated, contoursInvokedWith,
           terrainPts, elevationM, terrain_MeshOrBrep_Splitted, contourPlanes,
           transforms, splitWith, contoursWith,
           terrain, elevationContours, title, elevation, origin >>

inputVars == << radius_, type_, standThickness_, numOfContours_, north_,
               locationLatitudeD, filesAtStart, header, originPtProjected,
               kernel >>

inputDataVars == << maxVisibilityRadiusM, _type, typeLabel, standThickness,
                    numOfContours, northRad, northDeg, validInputData >>

rasterVars == << rasterFilePath, valid_Obj_or_Raster_file, clamp, branch,
                 fetchFailed, inverse, region >>

\* The values made by createTerrainMeshBrep, by
\* split_createStand_colorTerrain and by title_scalingRotating.
meshVars == << locationPt, terrainPts, elevationM >>

splitVars == << cuttingRadiusScaled, standBuilt, standDepth,
                terrainUnoriginUnscaledUnrotated, terrain_MeshOrBrep_Splitted,
                splitWith >>

contourVars == << contoursInvokedWith, contourPlanes, transforms, contoursWith >>

geometryVars == << meshVars, splitVars, contourVars >>

outputVars == << terrain, elevationContours, title, elevation, origin >>

(***************************************************************************)
(* Python 2 values                                                         *)
(***************************************************************************)
None == [t |-> "none", h |-> 0]

PyInt(n) == [t |-> "int", h |-> 2 * n]

PyFloat(halves) == [t |-> "float", h |-> halves]

IsNone(x) == x.t = "none"

\* x < n, x > n, x >= n for a number or None x and an int literal n
\* (Python 2 orders None below every number).
PyLt(x, n) == IF IsNone(x) THEN TRUE ELSE x.h < 2 * n

PyGt(x, n) == IF IsNone(x) THEN FALSE ELSE x.h > 2 * n

PyGe(x, n) == IF IsNone(x) THEN FALSE ELSE x.h >= 2 * n

\* x == n
PyEq(x, n) == IF IsNone(x) THEN FALSE ELSE x.h = 2 * n

\* A length in metres, and a latitude in degrees, in the units of the model.
Metres(n) == 2 * n

Deg(d) == d * 100000

Abs(x) == IF x < 0 THEN 0 - x ELSE x

(***************************************************************************)
(* checkInputData: the input checks, in the order of the code              *)
(***************************************************************************)
\* Mutant: a type_ that is not supplied becomes 0.
validatedType_defaultRectangular(type) ==
    LET t1 == IF IsNone(type) THEN PyInt(0) ELSE type
    IN  IF PyEq(t1, 1) THEN [_type |-> 1, typeLabel |-> "mesh-circular"]
        ELSE IF PyEq(t1, 2) THEN [_type |-> 2, typeLabel |-> "surface-rectangular"]
        ELSE IF PyEq(t1, 3) THEN [_type |-> 3, typeLabel |-> "surface-circular"]
        ELSE [_type |-> 0, typeLabel |-> "mesh-rectangular"]

\* type_: None becomes 1, 0..3 are kept, every other integer becomes 0.
validatedType(type) ==
    LET t1 == IF IsNone(type) THEN PyInt(1) ELSE type
    IN  IF PyEq(t1, 0) THEN [_type |-> 0, typeLabel |-> "mesh-rectangular"]
        ELSE IF PyEq(t1, 1) THEN [_type |-> 1, typeLabel |-> "mesh-circular"]
        ELSE IF PyEq(t1, 2) THEN [_type |-> 2, typeLabel |-> "surface-rectangular"]
        ELSE IF PyEq(t1, 3) THEN [_type |-> 3, typeLabel |-> "surface-circular"]
        ELSE [_type |-> 0, typeLabel |-> "mesh-rectangular"]

\* standThickness_: None and negative values become 0.
validatedStandThickness(thickness) ==
    IF IsNone(thickness) THEN PyInt(0)
    ELSE IF thickness.h < 0 THEN PyInt(0)
    ELSE thickness

\* numOfContours_: None becomes 10, negative values become 0.
validatedNumOfContours(n) ==
    IF IsNone(n) THEN PyInt(10)
    ELSE IF n.h < 0 THEN PyInt(0)
    ELSE n

\* Mutant: the test radius_ > 100000 is missing.
validatedRadius_noUpperLimit(radius) ==
    IF IsNone(radius) \/ (PyGe(radius, 20) /\ PyLt(radius, 200))
    THEN [valid |-> TRUE, radius |-> PyInt(200), printMsg |-> "ok"]
    ELSE IF PyLt(radius, 20)
    THEN [valid |-> FALSE, radius |-> None,
          printMsg |-> "radius_ input only supports values equal or larger than 20 meters."]
    ELSE [valid |-> TRUE, radius |-> radius, printMsg |-> "ok"]

\* radius_: None becomes 200, [20, 200) becomes 200, below 20 and above
\* 100000 are rejected, everything else is kept.
validatedRadius(radius) ==
    IF IsNone(radius)
    THEN [valid |-> TRUE, radius |-> PyInt(200), printMsg |-> "ok"]
    ELSE IF PyGe(radius, 20) /\ PyLt(radius, 200)
    THEN [valid |-> TRUE, radius |-> PyInt(200), printMsg |-> "ok"]
    ELSE IF PyLt(radius, 20)
    THEN [valid |-> FALSE, radius |-> None,
          printMsg |-> "radius_ input only supports values equal or larger than 20 meters."]
    ELSE IF PyGt(radius, 100000)
    THEN [valid |-> FALSE, radius |-> None,
          printMsg |-> "Radii longer than 100 000 meters (100 kilometers) are not supported"]
    ELSE [valid |-> TRUE, radius |-> radius, printMsg |-> "ok"]

\* Mutant: the test north > 360 is missing.
validNorth_noUpperLimit(north) == IsNone(north) \/ ~(north.h < 0)

\* north_ as a number: accepted when it is in 0..360.
validNorth(north) == IsNone(north) \/ ~(north.h < 0 \/ PyGt(north, 360))

\* What gismo_preparation.angle2northClockwise answers for a supplied north:
\* the helper is not part of this file, its answer is not looked into.
FromHelper == [t |-> "angle2northClockwise", h |-> 0]

\* northRad: 0 when north_ is not supplied, the helper's answer otherwise.
northRadOf(north) == IF IsNone(north) THEN PyInt(0) ELSE FromHelper

\* northDeg = int(360 - math.degrees(northRad)), and 360 becomes 0.
northDegOf(rad) ==
    IF rad = PyInt(0)
    THEN LET deg == 360 - 0
         IN  IF deg = 360 THEN PyInt(0) ELSE PyInt(deg)
    ELSE FromHelper

\* The tuple checkInputData returns on every failure: every value None,
\* the origin among them.
invalidInputData(msg) ==
    [maxVisibilityRadiusM |-> None, _type |-> None, typeLabel |-> "None",
     standThickness |-> None, numOfContours |-> None,
     northRad |-> None, northDeg |-> None,
     origin |-> "None",
     validInputData |-> FALSE, printMsg |-> msg, stickyWritten |-> FALSE]

\* The whole function.  gismoRan, mapWinGISok and folderCreated are the
\* answers of the session store and of the Gismo helpers it calls.
\* stickyWritten tells whether the store sc.sticky was written on the way.
checkInputData(radius, type, thickness, contours, north, gismoRan, mapWinGISok, folderCreated) ==
    IF ~gismoRan
    THEN invalidInputData("The Gismo Gismo component has not been run.")
    ELSE IF ~mapWinGISok
    THEN invalidInputData("MapWinGIS is not properly installed.")
    ELSE LET r == validatedRadius(radius)
             t == validatedType(type)
         IN  IF ~r.valid
             THEN [invalidInputData(r.printMsg) EXCEPT !.stickyWritten = TRUE]
             ELSE IF ~validNorth(north)
             THEN [invalidInputData("Please input north angle value from 0 to 360.")
                       EXCEPT !.stickyWritten = TRUE]
             ELSE IF ~folderCreated
             THEN [invalidInputData("The file path of gismoFolder_ is invalid.")
                       EXCEPT !.stickyWritten = TRUE]
             ELSE [maxVisibilityRadiusM |-> r.radius,
                   _type |-> PyInt(t._type), typeLabel |-> t.typeLabel,
                   standThickness |-> validatedStandThickness(thickness),
                   numOfContours |-> validatedNumOfContours(contours),
                   northRad |-> northRadOf(north),
                   northDeg |-> northDegOf(northRadOf(north)),
                   origin |-> "origin",
                   validInputData |-> TRUE, printMsg |-> "ok",
                   stickyWritten |-> TRUE]

(***************************************************************************)
(* distanceBetweenTwoPoints: distance from the location to the limit of    *)
(* the SRTM data on the location's meridian, and the radius policy         *)
(***************************************************************************)
\* The latitude of the second point: 60 North or 56 South.
latitude2D(latitude1D) == IF latitude1D >= 0 THEN Deg(60) ELSE Deg(-56)

\* sinSigma of the first iteration.  Both points are on one meridian
\* (L = 0), so sinLongitudeR = 0 and sinSigma = |cosU1*sinU2 - sinU1*cosU2|,
\* which is 0.0 exactly when the two latitudes are equal.
sinSigmaIsZero(latitude1D) == latitude1D = latitude2D(latitude1D)

\* distanceM in half metres.  The floating-point Vincenty iteration is not
\* reproduced: on one meridian its result is the meridian arc between the
\* two latitudes, 1.114 m (557/250 half metres) for each 0.00001 degree.
distanceM(latitude1D) ==
    LET delta == Abs(latitude1D - latitude2D(latitude1D))
    IN  (delta \div 250) * 557 + ((delta % 250) * 557) \div 250

\* for i in range(100)
RangeOfLoop == 100

\* longitudeR after pass i of the loop on the longitude difference (pass 0:
\* before the loop).  Both points are on one meridian: L = 0 and
\* sinLongitudeR = 0, so sinBearingAngleR = 0 and each pass gives
\* longitudeR = L + 0 = 0.
longitudeRAfter(i) == IF i = 0 THEN 0 ELSE 0 + 0 * i

\* The loop has no test on longitudeR and longitudeR_ and no break: every
\* pass of range(100) is made.  settledAfter is the first pass after which
\* longitudeR equals longitudeR_ (0: none).
longitudeLoop ==
    LET passes == 1..RangeOfLoop
        settled == {i \in passes : longitudeRAfter(i) = longitudeRAfter(i - 1)}
    IN  [raised |-> "none", iterations |-> Cardinality(passes),
         settledAfter |-> IF settled = {} THEN 0
                          ELSE CHOOSE i \in settled : \A j \in settled : i <= j]

NoLoop == [raised |-> "none", iterations |-> 0, settledAfter |-> 0]

\* The iteration of distanceBetweenTwoPoints: the first pass raises when
\* sinSigma is 0.0, otherwise the loop runs to its end.
inverseIteration(latitude1D) ==
    IF sinSigmaIsZero(latitude1D)
    THEN [raised |-> "ZeroDivisionError", iterations |-> 1, settledAfter |-> 0]
    ELSE longitudeLoop

Dummy == [t |-> "str", h |-> 0]

NotCalled == [raised |-> "none", correctedMaskRadiusM |-> None,
              validVisibilityRadiusM |-> FALSE, printMsg |-> "not called"]

\* Mutant: int() rounding up instead of down.
correctedMaskRadiusM_ceil(distance) == PyInt((distance + 1) \div 2)

\* int(distanceM): the floor, as a Python int.
correctedMaskRadiusM(distance) == PyInt(distance \div 2)

TooClose ==
    [raised |-> "none", correctedMaskRadiusM |-> Dummy,
     validVisibilityRadiusM |-> FALSE,
     printMsg |-> "It is not possible to create a terrain for locations less than 200 meters close to mentioned boundary"]

\* Mutant: a distance equal to the radius is taken as too short.
radiusPolicy_strict(distance, maxVis) ==
    IF distance < Metres(200) THEN TooClose
    ELSE IF distance <= maxVis.h
    THEN [raised |-> "none", correctedMaskRadiusM |-> correctedMaskRadiusM(distance),
          validVisibilityRadiusM |-> FALSE,
          printMsg |-> "Please supply the radius_ input with value: correctedMaskRadiusM"]
    ELSE [raised |-> "none", correctedMaskRadiusM |-> maxVis,
          validVisibilityRadiusM |-> TRUE, printMsg |-> "ok"]

\* Mutant: the corrected radius is int(distanceM) in the valid branch too.
radiusPolicy_alwaysDistance(distance, maxVis) ==
    IF distance < Metres(200) THEN TooClose
    ELSE IF distance < maxVis.h
    THEN [raised |-> "none", correctedMaskRadiusM |-> correctedMaskRadiusM(distance),
          validVisibilityRadiusM |-> FALSE,
          printMsg |-> "Please supply the radius_ input with value: correctedMaskRadiusM"]
    ELSE [raised |-> "none", correctedMaskRadiusM |-> correctedMaskRadiusM(distance),
          validVisibilityRadiusM |-> TRUE, printMsg |-> "ok"]

\* The radius policy on the computed distance.
radiusPolicy(distance, maxVis) ==
    IF distance < Metres(200) THEN TooClose
    ELSE IF distance < maxVis.h
    THEN [raised |-> "none", correctedMaskRadiusM |-> correctedMaskRadiusM(distance),
          validVisibilityRadiusM |-> FALSE,
          printMsg |-> "Please supply the radius_ input with value: correctedMaskRadiusM"]
    ELSE [raised |-> "none", correctedMaskRadiusM |-> maxVis,
          validVisibilityRadiusM |-> TRUE, printMsg |-> "ok"]

\* The whole function: the division by sinSigma in the first iteration
\* raises ZeroDivisionError when sinSigma is 0.0.
distanceBetweenTwoPoints(latitude1D, maxVis) ==
    IF sinSigmaIsZero(latitude1D)
    THEN [raised |-> "ZeroDivisionError", correctedMaskRadiusM |-> None,
          validVisibilityRadiusM |-> FALSE, printMsg |-> "none"]
    ELSE radiusPolicy(distanceM(latitude1D), maxVis)

(***************************************************************************)
(* destinationLatLon: the four extremes of the region around the location  *)
(***************************************************************************)
MaxPasses == 6

\* top, bottom, left, right
bearingAnglesD == << 0, 180, 270, 90 >>

\* An angle in units of 1e-12 radian, as hi * 1000000 + lo: the first
\* estimate of a radius of 100 km is above 2^31 of these units.
sigmaStart(radius) ==
    LET x == radius.h * 785
    IN  [hi |-> x \div 10000, lo |-> (x % 10000) * 100]

\* Mutant: a pass leaves the difference of the estimates as it was.
nextDifference_same(d, shrink) == d

\* |sigma - sigma_| after one more pass.  sigma = s/(b*A) + deltaSigma, and
\* deltaSigma = B*sin(sigma)*(...) with B < 0.0017: a pass divides the
\* difference by shrink, which is more than 500 in the arithmetic of the
\* code.
nextDifference(d, shrink) ==
    [hi |-> d.hi \div shrink,
     lo |-> ((d.hi % shrink) * 1000000 + d.lo) \div shrink]

\* while abs(sigma - sigma_) > 1e-12: d is the difference, n the number of
\* passes made.  The loop has no counter of its own; the one of the model
\* stops at MaxPasses and reports a loop that is still running.
RECURSIVE sigmaLoop(_, _, _)
sigmaLoop(d, n, shrink) ==
    IF ~(d.hi > 0 \/ d.lo > 1) THEN [exited |-> TRUE, passes |-> n]
    ELSE IF n >= MaxPasses THEN [exited |-> FALSE, passes |-> n]
    ELSE sigmaLoop(nextDifference(d, shrink), n + 1, shrink)

\* The loop of one bearing: sigma_ = 0 and sigma = s/(b*A), which is 78500
\* units of 1e-12 radian for each half metre of the radius.
correctionLoop(radius, shrink) == sigmaLoop(sigmaStart(radius), 0, shrink)

NoRegion == [returned |-> FALSE, extremes |-> << >>, passes |-> << >>]

\* The whole function for estimates that shrink by the given factor: one
\* loop for each bearing, and the four extremes when all four loops exit.
destinationLatLonWith(radius, shrink) ==
    LET loops == [k \in DOMAIN bearingAnglesD |-> correctionLoop(radius, shrink)]
    IN  IF \A k \in DOMAIN loops : loops[k].exited
        THEN [returned |-> TRUE,
              extremes |-> << "latitudeTopD", "latitudeBottomD",
                              "longitudeLeftD", "longitudeRightD" >>,
              passes |-> [k \in DOMAIN loops |-> loops[k].passes]]
        ELSE [NoRegion EXCEPT !.passes = [k \in DOMAIN loops |-> loops[k].passes]]

destinationLatLon(radius) == destinationLatLonWith(radius, 500)

(***************************************************************************)
(* checkObjRasterFile: look for the .obj file, then for the .tif raster,   *)
(* locally and on the network                                              *)
(***************************************************************************)
\* round(maxVisibilityRadiusM/1000, 2), in hundredths of a kilometre.  For
\* an int radius the division is Python 2 floor division.
visibilityKM(maxVis) ==
    IF maxVis.t = "int" THEN ((maxVis.h \div 2) \div 1000) * 100
    ELSE (maxVis.h + 10) \div 20

objFilePath(maxVis) == [kind |-> "obj", km |-> visibilityKM(maxVis)]

rasterFilePathOf(maxVis) == [kind |-> "tif", km |-> visibilityKM(maxVis)]

tsvFilePath == [kind |-> "tsv", km |-> 0]

Needless == [kind |-> "needless", km |-> 0]

DownloadFailed == [kind |-> "download failed", km |-> 0]

\* The latitude test made before a raster is requested: above 59.99999.
beyondNorthLimit(latitude) == latitude > Deg(60) - 1

\* The result of the "switch" part when the raster is in the folder.
\* branch names the path taken and failed the fetches that failed.
rasterFound(fs, maxVis) ==
    [raised |-> "none", rasterFilePath |-> rasterFilePathOf(maxVis), valid |-> TRUE,
     printMsg |-> "ok", downloads |-> {}, files |-> fs,
     clamp |-> NotCalled, calls |-> << >>,
     branch |-> << "tif exists" >>, failed |-> {}]

\* The raster is not in the folder: test the latitude, correct the radius,
\* download the raster.
rasterRequest(fs, latitude, maxVis, tifDownloaded) ==
    LET base == rasterFound(fs, maxVis)
    IN  IF beyondNorthLimit(latitude)
        THEN [base EXCEPT !.valid = FALSE, !.rasterFilePath = Needless,
                          !.branch = << "latitude exceeds" >>,
                          !.printMsg = "Your _location's latitude exceeds the upper mentioned limits."]
        ELSE LET c == distanceBetweenTwoPoints(latitude, maxVis)
                 called == [base EXCEPT !.clamp = c,
                                        !.branch = << "radius not valid" >>,
                                        !.calls = << "distanceBetweenTwoPoints" >>]
             IN  IF c.raised # "none"
                 THEN [called EXCEPT !.raised = c.raised, !.valid = FALSE,
                                     !.printMsg = "none"]
                 ELSE IF c.validVisibilityRadiusM
                 THEN LET asked == [called EXCEPT
                                       !.calls = << "distanceBetweenTwoPoints", "destinationLatLon" >>,
                                       !.branch = << "tif download" >>,
                                       !.downloads = {"tif"}]
                      IN  IF tifDownloaded
                          THEN [asked EXCEPT !.files = fs \cup {rasterFilePathOf(maxVis)}]
                          ELSE [asked EXCEPT !.valid = FALSE,
                                             !.rasterFilePath = DownloadFailed,
                                             !.failed = {"tif"},
                                             !.printMsg = "It has just failed to download the topography data."]
                 ELSE [called EXCEPT !.valid = FALSE, !.rasterFilePath = Needless,
                                     !.printMsg = c.printMsg]

\* Mutant: a raster found in the folder is removed once it has been used.
rasterSwitch_rasterRemoved(fs, latitude, maxVis, tifDownloaded) ==
    IF rasterFilePathOf(maxVis) \in fs
    THEN [rasterFound(fs, maxVis) EXCEPT !.files = fs \ {rasterFilePathOf(maxVis)}]
    ELSE rasterRequest(fs, latitude, maxVis, tifDownloaded)

\* The "switch" part: no .obj file could be found, use a .tif raster.
\* fs is the file system on entry to this part.
rasterSwitch(fs, latitude, maxVis, tifDownloaded) ==
    IF rasterFilePathOf(maxVis) \in fs
    THEN rasterFound(fs, maxVis)
    ELSE rasterRequest(fs, latitude, maxVis, tifDownloaded)

\* The whole function.  e holds the answers of the host and the network:
\* importOk (the .obj import gave objects), connected, tsvDownloaded,
\* objListed (the links file lists this .obj), objDownloaded, tifDownloaded.
\* downloadUrl_ is None in every run, so a links file that cannot be
\* downloaded leads to the switch (II.2.B).  The answer of the .obj download
\* is not looked at (objFileDownloadedDummy).
checkObjRasterFile(fs, latitude, maxVis, e) ==
    LET obj == objFilePath(maxVis)
        base == [raised |-> "none", rasterFilePath |-> Needless, valid |-> TRUE,
                 printMsg |-> "ok", downloads |-> {}, files |-> fs,
                 clamp |-> NotCalled, calls |-> << >>,
                 branch |-> << "I" >>, failed |-> {}]
    IN  IF obj \in fs
        THEN IF e.importOk THEN base
             ELSE [base EXCEPT !.valid = FALSE,
                               !.printMsg = "You opened a new Rhino file while runIt_ input has been set to True."]
        ELSE IF ~e.connected
        THEN [base EXCEPT !.valid = FALSE, !.rasterFilePath = DownloadFailed,
                          !.branch = << "II" >>, !.failed = {"internet"},
                          !.printMsg = "This component requires you to be connected to the Internet."]
        ELSE IF ~e.tsvDownloaded
        THEN LET r == rasterSwitch(fs, latitude, maxVis, e.tifDownloaded)
             IN  [r EXCEPT !.downloads = {"tsv"} \cup r.downloads,
                           !.branch = << "II.2.B" >> \o r.branch,
                           !.failed = {"tsv"} \cup r.failed]
        ELSE IF e.objListed
        THEN [base EXCEPT !.downloads = {"tsv", "obj"},
                          !.branch = << "II.1.A" >>,
                          !.failed = IF e.objDownloaded THEN {} ELSE {"obj"},
                          !.files = IF e.objDownloaded
                                    THEN fs \cup {tsvFilePath, obj}
                                    ELSE fs \cup {tsvFilePath}]
        ELSE LET r == rasterSwitch(fs \cup {tsvFilePath}, latitude, maxVis, e.tifDownloaded)
             IN  [r EXCEPT !.downloads = {"tsv"} \cup r.downloads,
                           !.branch = << "II.1.B" >> \o r.branch]

Answers == [importOk : BOOLEAN, connected : BOOLEAN, tsvDownloaded : BOOLEAN,
            objListed : BOOLEAN, objDownloaded : BOOLEAN, tifDownloaded : BOOLEAN]

(***************************************************************************)
(* split_createStand_colorTerrain and title_scalingRotating: the parts     *)
(* that depend on the inputs                                               *)
(***************************************************************************)
\* The radius of the cutting box or sphere, in 1/2000 of a document unit
\* (scaleFactor = 0.01, unitConversionFactor2 = 1).  The function reads the
\* global radius_, the input as the host gave it.
radiusBelow200(radius) == PyLt(radius, 200)

cuttingRadius(radius) ==
    IF radiusBelow200(radius)
    THEN IF IsNone(radius)
         THEN [raised |-> "TypeError", value |-> 0]
         ELSE [raised |-> "none", value |-> radius.h * 10]
    ELSE [raised |-> "none", value |-> radius.h * 9]

\* standThickness/100, in 1/200 of a document unit.  Between two ints the
\* division is Python 2 floor division.
standThicknessScaled(thickness) ==
    IF thickness.t = "int" THEN ((thickness.h \div 2) \div 100) * 200
    ELSE thickness.h

\* standThickness == 0: no stand; standThickness > 0: create the stand.
standCreated(thickness) == standThicknessScaled(thickness) > 0

\* Mutant: the test is numOfContours_ >= 0.
contoursRequested_orZero(contours) == PyGe(contours, 0)

\* The test that decides whether createElevationContours is called.  The
\* function reads the global numOfContours_, the input as the host gave it.
contoursRequested(contours) == PyGt(contours, 0)

NotInvoked == [t |-> "not invoked", h |-> 0]

(***************************************************************************)
(* createTerrainMeshBrep: the points of the terrain from the raster.       *)
(* Coordinates are in halves of a raster unit (h = 2 * value) and in       *)
(* units of scaleFactor; unitConversionFactor2 is 1.                       *)
(***************************************************************************)
terrainMeshLeftBottomPtX(hd, o) == (2 * hd.XllCenter - hd.dX) - 2 * o.X

terrainMeshLeftBottomPtY(hd, o) == (2 * hd.YllCenter - hd.dY) - 2 * o.Y

terrainMeshStartPtX(hd, o) == terrainMeshLeftBottomPtX(hd, o)

\* The upper edge: the code adds abs(cellsizeX) * numOfRows.
terrainMeshStartPtY(hd, o) ==
    terrainMeshLeftBottomPtY(hd, o) + 2 * Abs(hd.dX) * hd.NumberRows

\* The point made in iteration (k, i): it reads grid.Value(i, k).
pt(hd, o, k, i) ==
    [read |-> [col |-> i, row |-> k],
     x |-> terrainMeshStartPtX(hd, o) + 2 * i * Abs(hd.dX),
     y |-> terrainMeshStartPtY(hd, o) - 2 * k * Abs(hd.dY)]

\* Mutant: the loops are nested the other way round (column outer).
pts_columnMajor(hd, o) ==
    [n \in 1..(hd.NumberRows * hd.NumberCols) |->
        pt(hd, o, (n - 1) % hd.NumberRows, (n - 1) \div hd.NumberRows)]

\* for k in xrange(numOfCellsInY): for i in xrange(numOfCellsInX): append.
pts(hd, o) ==
    [n \in 1..(hd.NumberRows * hd.NumberCols) |->
        pt(hd, o, (n - 1) \div hd.NumberCols, (n - 1) % hd.NumberCols)]

\* MeshRay gives a negative parameter when the ray misses the mesh; the
\* code takes ray.PointAt of whatever it gives.
locationPtOf(rayIntersectParam) ==
    IF rayIntersectParam >= 0 THEN "locationPt" ELSE "aboveElevatedOrigin"

(***************************************************************************)
(* split_createStand_colorTerrain: the fragment that is kept               *)
(***************************************************************************)
\* t1 sorts before t2 as Python tuples (distance, i).
tupleBefore(t1, t2) == t1[1] < t2[1] \/ (t1[1] = t2[1] /\ t1[2] <= t2[2])

\* Mutant: the last tuple of the sorted list is taken.
nearestFragment_last(distances) ==
    CHOOSE i \in DOMAIN distances :
        \A j \in DOMAIN distances :
            tupleBefore(<< distances[j], j >>, << distances[i], i >>)

\* tupleDistanceToLocationPt.sort(); tupleDistanceToLocationPt[0][1]: the
\* index in the tuple that sorts first.
nearestFragment(distances) ==
    CHOOSE i \in DOMAIN distances :
        \A j \in DOMAIN distances :
            tupleBefore(<< distances[i], i >>, << distances[j], j >>)

\* The split split_createStand_colorTerrain makes: it reads the module
\* global _type, which the main flow has bound to the value checkInputData
\* returned.  The mesh or the surface is split with a cuboid or a sphere.
splitMethod(type) ==
    IF PyEq(type, 0) THEN "mesh, cuboid"
    ELSE IF PyEq(type, 1) THEN "mesh, sphere"
    ELSE IF PyEq(type, 2) THEN "surface, cuboid"
    ELSE IF PyEq(type, 3) THEN "surface, sphere"
    ELSE "none"

(***************************************************************************)
(* createElevationContours and the transforms of title_scalingRotating     *)
(***************************************************************************)
\* The intersection createElevationContours uses for its parameter _type.
contourMethod(type) ==
    IF PyEq(type, 0) \/ PyEq(type, 1) THEN "MeshPlane"
    ELSE IF PyEq(type, 2) \/ PyEq(type, 3) THEN "BrepPlane"
    ELSE "none"

\* DivideByCount(numOfContours, includeEnds = False) on the vertical edge
\* of the bounding box: the edge is divided in numOfContours segments and
\* the parameters of the division points between them are returned, the two
\* ends left out.  Plane i lies at i/numOfContours of the vertical extent.
elevationContours_planes(contours) ==
    [i \in 1..((contours.h \div 2) - 1) |-> i]

\* The curves the function returns.  found is what the intersection of the
\* terrain with at least one plane gives; an element is "curve" or "null".
\* For a mesh, MeshPlane gives null when nothing is found and list(null)
\* raises TypeError.
createElevationContours(planes, type, found) ==
    LET curves == IF planes = << >> THEN << >> ELSE found
    IN  IF (PyEq(type, 0) \/ PyEq(type, 1)) /\ curves = << >>
        THEN [raised |-> "TypeError", elevationContours |-> << >>]
        ELSE [raised |-> "none", elevationContours |-> curves]

ThreeTransforms ==
    << "originTransformMatrix", "scaleTransformMatrix", "rotateTransformMatrix" >>

\* Mutant: the loop stops at the first null element.
transformsOf_stopAtNull(geometry) ==
    [n \in DOMAIN geometry |->
        IF \A m \in 1..n : geometry[m] # "null" THEN ThreeTransforms ELSE << >>]

\* for g in geometry: if g != None: the three transforms, in this order.
transformsOf(geometry) ==
    [n \in DOMAIN geometry |->
        IF geometry[n] # "null" THEN ThreeTransforms ELSE << >>]

(***************************************************************************)
(* Inputs of a run                                                         *)
(***************************************************************************)
RadiusWindow == 1

MaxLatSteps == 2

MaxType == 4

MaxStand == 1

ContourWindow == 1

MaxContours == 3

MaxRows == 2

MaxCols == 2

MaxCell == 2

MaxFragments == 3

MaxDistance == 2

MaxCurves == 2

\* The values at which the code compares radius_: 20, 200 and 100000.
RadiusMarks == {20, 200, 100000}

RadiusInputs ==
    {None}
    \cup {PyInt(c + k) : c \in RadiusMarks, k \in (0 - RadiusWindow)..RadiusWindow}
    \cup {PyFloat(Metres(c) + k) : c \in RadiusMarks,
                                   k \in ((0 - RadiusWindow)..RadiusWindow) \ {0}}

\* Latitudes in steps of 0.0009 degree (100 m) inwards from both limits of
\* the data, one step outside them, one degree outside them, and one far
\* from both.
LatitudeInputs ==
    {Deg(-56) + k * 90 : k \in (0 - 1)..MaxLatSteps}
    \cup {Deg(60) - k * 90 : k \in (0 - 1)..MaxLatSteps}
    \cup {Deg(-57), Deg(61), Deg(45)}

TypeInputs == {None} \cup {PyInt(k) : k \in (0 - 1)..MaxType}

StandInputs ==
    {None} \cup {PyInt(k) : k \in (0 - 1)..MaxStand} \cup {PyInt(100)}
    \cup {PyFloat(k) : k \in 1..MaxStand}

ContourInputs == {None} \cup {PyInt(k) : k \in (0 - ContourWindow)..ContourWindow}

\* North angles around the two ends of 0..360.
NorthInputs ==
    {None} \cup {PyInt(c + k) : c \in {0, 360}, k \in (0 - 1)..1}
    \cup {PyFloat(Metres(360) + 1)}

\* The working folder at the start: empty, or holding the .obj file or the
\* .tif raster an earlier run left under the name of a radius below 1 km.
FolderInputs == {{}} \cup {{[kind |-> k, km |-> 0]} : k \in {"obj", "tif"}}

\* Raster headers: the numbers of rows and columns, the two cell sizes and
\* the centre of the lower left cell.
HeaderInputs ==
    [NumberRows : 1..MaxRows, NumberCols : 1..MaxCols,
     dX : 1..MaxCell, dY : 1..MaxCell, XllCenter : {0, 3}, YllCenter : {0, 5}]

OriginInputs == {[X |-> 0, Y |-> 0], [X |-> 1, Y |-> 2]}

\* The lists of length 0..n over the set S.
ListsUpTo(n, S) == UNION {[1..m -> S] : m \in 0..n}

\* Answers of the geometry kernel: the distances from the centroids of the
\* fragments of the split to locationPt, and the curves found by the
\* intersection with the contour planes.
FragmentInputs == ListsUpTo(MaxFragments, 0..MaxDistance)

CurveInputs == ListsUpTo(MaxCurves, {"curve", "null"})

DefaultHeader ==
    [NumberRows |-> 1, NumberCols |-> 1, dX |-> 1, dY |-> 1,
     XllCenter |-> 0, YllCenter |-> 0]

DefaultOrigin == [X |-> 0, Y |-> 0]

DefaultKernel ==
    [rayIntersectParam |-> 1, centroidDistances |-> << 0 >>,
     found |-> << "curve" >>]

DefaultTerrain ==
    /\ header = DefaultHeader
    /\ originPtProjected = DefaultOrigin
    /\ kernel = DefaultKernel

\* Runs near the limits of the data: the location, the radius and the
\* working folder vary, the other inputs are not supplied.
InputsNearLimit ==
    /\ radius_ \in RadiusInputs
    /\ locationLatitudeD \in LatitudeInputs
    /\ files \in FolderInputs
    /\ type_ = None
    /\ standThickness_ = None
    /\ numOfContours_ = None
    /\ north_ = None
    /\ DefaultTerrain

\* Runs far from the limits, in an empty working folder: the radius, the
\* type, the stand thickness and the number of contours vary.
InputsOfGeometry ==
    /\ radius_ \in RadiusInputs
    /\ type_ \in TypeInputs
    /\ standThickness_ \in StandInputs
    /\ numOfContours_ \in ContourInputs
    /\ north_ = None
    /\ locationLatitudeD = Deg(45)
    /\ files = {}
    /\ DefaultTerrain

\* Runs where the north angle varies.
InputsOfNorth ==
    /\ north_ \in NorthInputs
    /\ radius_ \in {None, PyInt(200)}
    /\ type_ = None
    /\ standThickness_ = None
    /\ numOfContours_ = None
    /\ locationLatitudeD = Deg(45)
    /\ files = {}
    /\ DefaultTerrain

\* Runs where the raster varies: its header, the projected location, and
\* whether the ray from above the origin meets the mesh.
InputsOfRaster ==
    /\ header \in HeaderInputs
    /\ originPtProjected \in OriginInputs
    /\ kernel \in {DefaultKernel, [DefaultKernel EXCEPT !.rayIntersectParam = 0 - 1]}
    /\ radius_ = PyInt(200)
    /\ type_ = None
    /\ standThickness_ = None
    /\ numOfContours_ = PyInt(0)
    /\ north_ = None
    /\ locationLatitudeD = Deg(45)
    /\ files \in FolderInputs

\* Runs where the fragments the split gives vary, for a mesh and for a
\* surface.
InputsOfSplit ==
    /\ kernel \in {[DefaultKernel EXCEPT !.centroidDistances = d] : d \in FragmentInputs}
    /\ header = DefaultHeader
    /\ originPtProjected = DefaultOrigin
    /\ radius_ = PyInt(200)
    /\ type_ \in {None, PyInt(2)}
    /\ standThickness_ = None
    /\ numOfContours_ = PyInt(0)
    /\ north_ = None
    /\ locationLatitudeD = Deg(45)
    /\ files = {}

\* Runs where the number of contours and the curves the intersection gives
\* vary, for a mesh and for a surface.
InputsOfContours ==
    /\ kernel \in {[DefaultKernel EXCEPT !.found = f] : f \in CurveInputs}
    /\ header = DefaultHeader
    /\ originPtProjected = DefaultOrigin
    /\ radius_ = PyInt(200)
    /\ type_ \in {None, PyInt(2)}
    /\ standThickness_ = None
    /\ numOfContours_ \in {PyInt(k) : k \in 1..MaxContours}
    /\ north_ = None
    /\ locationLatitudeD = Deg(45)
    /\ files = {}

NotAssigned == << "not assigned" >>

Init ==
    /\ \/ InputsNearLimit
       \/ InputsOfGeometry
       \/ InputsOfNorth
       \/ InputsOfRaster
       \/ InputsOfSplit
       \/ InputsOfContours
    /\ filesAtStart = files
    /\ pc = "start"
    /\ exception = "none"
    /\ calls = << >>
    /\ printMsg = "none"
    /\ warnings = 0
    /\ _runIt = "not read"
    /\ maxVisibilityRadiusM = None
    /\ _type = None
    /\ typeLabel = "None"
    /\ standThickness = None
    /\ numOfContours = None
    /\ northRad = None
    /\ northDeg = None
    /\ validInputData = FALSE
    /\ stickyOrigin = "unset"
    /\ rasterFilePath = Needless
    /\ valid_Obj_or_Raster_file = FALSE
    /\ clamp = NotCalled
    /\ downloads = {}
    /\ branch = << >>
    /\ fetchFailed = {}
    /\ inverse = NoLoop
    /\ region = NoRegion
    /\ locationPt = "unset"
    /\ terrainPts = << >>
    /\ elevationM = "unset"
    /\ cuttingRadiusScaled = 0
    /\ standBuilt = FALSE
    /\ standDepth = 0
    /\ terrainUnoriginUnscaledUnrotated = "unset"
    /\ terrain_MeshOrBrep_Splitted = 0
    /\ contoursInvokedWith = NotInvoked
    /\ contourPlanes = << >>
    /\ transforms = << >>
    /\ splitWith = "unset"
    /\ contoursWith = "unset"
    /\ terrain = "unset"
    /\ elevationContours = NotAssigned
    /\ title = "unset"
    /\ elevation = "unset"
    /\ origin = "unset"

(***************************************************************************)
(* The main flow                                                           *)
(***************************************************************************)
\* Mutant: the message is added twice.
Warn_twice(msg) ==
    /\ printMsg' = msg
    /\ warnings' = warnings + 2
    /\ pc' = "done"

\* print printMsg; ghenv.Component.AddRuntimeMessage(level, printMsg)
Warn(msg) ==
    /\ printMsg' = msg
    /\ warnings' = warnings + 1
    /\ pc' = "done"

Raise(name) ==
    /\ exception' = name
    /\ pc' = "raised"

\* The checks before checkInputData: Gismo released, version date, location.
\* checkLocationData returns into the name elevation, the name of an output.
MainStart ==
    /\ pc = "start"
    /\ \E released \in BOOLEAN, validVersionDate \in BOOLEAN, validLocationData \in BOOLEAN :
         IF ~released
         THEN /\ Warn("First please run the Gismo Gismo component.")
              /\ calls' = << "has_key" >>
              /\ UNCHANGED elevation
         ELSE IF ~validVersionDate
         THEN /\ Warn("versionDate")
              /\ calls' = << "has_key", "versionDate" >>
              /\ UNCHANGED elevation
         ELSE /\ elevation' = "checkLocationData"
              /\ calls' = << "has_key", "versionDate", "checkLocationData" >>
              /\ IF ~validLocationData THEN Warn("checkLocationData")
                 ELSE /\ pc' = "checkInputData"
                      /\ UNCHANGED << printMsg, warnings >>
    /\ UNCHANGED << inputVars, exception, _runIt, inputDataVars, stickyOrigin, files,
                    rasterVars, downloads, geometryVars,
                    terrain, elevationContours, title, origin >>

\* checkInputData and the two tests that follow it: validInputData, _runIt.
\* The function returns into the name origin, the name of an output.
CheckInputData ==
    /\ pc = "checkInputData"
    /\ \E gismoRan \in BOOLEAN, mapWinGISok \in BOOLEAN, folderCreated \in BOOLEAN,
          runIt \in BOOLEAN :
         LET r == checkInputData(radius_, type_, standThickness_, numOfContours_,
                                 north_, gismoRan, mapWinGISok, folderCreated)
         IN  /\ maxVisibilityRadiusM' = r.maxVisibilityRadiusM
             /\ _type' = r._type
             /\ typeLabel' = r.typeLabel
             /\ standThickness' = r.standThickness
             /\ numOfContours' = r.numOfContours
             /\ northRad' = r.northRad
             /\ northDeg' = r.northDeg
             /\ validInputData' = r.validInputData
             /\ origin' = r.origin
             /\ stickyOrigin' = IF r.stickyWritten THEN "origin" ELSE stickyOrigin
             /\ IF ~r.validInputData
                THEN /\ Warn(r.printMsg)
                     /\ UNCHANGED _runIt
                ELSE /\ printMsg' = r.printMsg
                     /\ warnings' = warnings
                     /\ _runIt' = IF runIt THEN "True" ELSE "False"
                     /\ pc' = IF runIt THEN "checkObjRasterFile" ELSE "done"
    /\ calls' = Append(calls, "checkInputData")
    /\ UNCHANGED << inputVars, exception, files, rasterVars, downloads,
                    geometryVars, terrain, elevationContours, title, elevation >>

\* checkObjRasterFile and the tests that follow it.
CheckObjRasterFile ==
    /\ pc = "checkObjRasterFile"
    /\ \E e \in Answers :
         LET r == checkObjRasterFile(files, locationLatitudeD, maxVisibilityRadiusM, e)
         IN  /\ files' = r.files
             /\ downloads' = downloads \cup r.downloads
             /\ clamp' = r.clamp
             /\ branch' = r.branch
             /\ fetchFailed' = r.failed
             /\ inverse' = IF \E i \in DOMAIN r.calls : r.calls[i] = "distanceBetweenTwoPoints"
                           THEN inverseIteration(locationLatitudeD) ELSE NoLoop
             /\ region' = IF \E i \in DOMAIN r.calls : r.calls[i] = "destinationLatLon"
                          THEN destinationLatLon(r.clamp.correctedMaskRadiusM)
                          ELSE NoRegion
             /\ calls' = Append(calls, "checkObjRasterFile") \o r.calls
             /\ IF r.raised # "none"
                THEN /\ Raise(r.raised)
                     /\ UNCHANGED << rasterFilePath, valid_Obj_or_Raster_file,
                                     printMsg, warnings >>
                ELSE /\ rasterFilePath' = r.rasterFilePath
                     /\ valid_Obj_or_Raster_file' = r.valid
                     /\ exception' = exception
                     /\ IF ~r.valid THEN Warn(r.printMsg)
                        ELSE /\ printMsg' = r.printMsg
                             /\ warnings' = warnings
                             /\ pc' = IF r.rasterFilePath \notin {Needless, DownloadFailed}
                                      THEN "createTerrainMeshBrep"
                                      ELSE "title_scalingRotating"
    /\ UNCHANGED << inputVars, _runIt, inputDataVars, stickyOrigin, geometryVars, outputVars >>

\* createTerrainMeshBrep: builds the points, the mesh and the surface from
\* the raster and projects the origin on the mesh.  The parameter MeshRay
\* gives is not tested.
CreateTerrainMeshBrep ==
    /\ pc = "createTerrainMeshBrep"
    /\ terrainPts' = pts(header, originPtProjected)
    /\ locationPt' = locationPtOf(kernel.rayIntersectParam)
    /\ elevationM' = IF kernel.rayIntersectParam >= 0
                     THEN "elevationM" ELSE "aboveElevatedOrigin"
    /\ calls' = Append(calls, "createTerrainMeshBrep")
    /\ pc' = "split_createStand_colorTerrain"
    /\ UNCHANGED << inputVars, _runIt, exception, printMsg, warnings, inputDataVars,
                    stickyOrigin, files, rasterVars, downloads,
                    splitVars, contourVars, outputVars >>

\* split_createStand_colorTerrain: cut the terrain around locationPt, keep
\* the nearest fragment, add the stand.  Indexing the sorted list raises
\* IndexError when the split gave no fragment.
SplitCreateStandColorTerrain ==
    /\ pc = "split_createStand_colorTerrain"
    /\ calls' = Append(calls, "split_createStand_colorTerrain")
    /\ LET c == cuttingRadius(radius_)
       IN  IF c.raised # "none"
           THEN /\ Raise(c.raised)
                /\ UNCHANGED splitVars
           ELSE IF kernel.centroidDistances = << >>
           THEN /\ Raise("IndexError")
                /\ cuttingRadiusScaled' = c.value
                /\ splitWith' = splitMethod(_type)
                /\ UNCHANGED << standBuilt, standDepth,
                                terrainUnoriginUnscaledUnrotated,
                                terrain_MeshOrBrep_Splitted >>
           ELSE /\ cuttingRadiusScaled' = c.value
                /\ splitWith' = splitMethod(_type)
                /\ terrain_MeshOrBrep_Splitted' = nearestFragment(kernel.centroidDistances)
                /\ standBuilt' = standCreated(standThickness)
                /\ standDepth' = standThicknessScaled(standThickness)
                /\ terrainUnoriginUnscaledUnrotated' = "clipped"
                /\ exception' = exception
                /\ pc' = "title_scalingRotating"
    /\ UNCHANGED << inputVars, _runIt, printMsg, warnings, inputDataVars, stickyOrigin,
                    files, rasterVars, downloads, meshVars, contourVars,
                    outputVars >>

\* title_scalingRotating: contours, placement, title.  The call names
\* terrainUnoriginUnscaledUnrotated and locationPt, which are unbound when
\* the raster stages were skipped.
TitleScalingRotating ==
    /\ pc = "title_scalingRotating"
    /\ IF terrainUnoriginUnscaledUnrotated = "unset"
       THEN /\ Raise("NameError")
            /\ UNCHANGED << calls, contourVars, terrain, elevationContours, title >>
       ELSE IF contoursRequested(numOfContours_)
       THEN LET planes == elevationContours_planes(numOfContours)
                c == createElevationContours(planes, _type, kernel.found)
            IN  /\ calls' = calls \o << "title_scalingRotating", "createElevationContours" >>
                /\ contoursInvokedWith' = numOfContours
                /\ contoursWith' = contourMethod(_type)
                /\ contourPlanes' = planes
                /\ IF c.raised # "none"
                   THEN /\ Raise(c.raised)
                        /\ UNCHANGED << transforms, terrain, elevationContours, title >>
                   ELSE /\ transforms' = transformsOf(<< "terrain" >> \o c.elevationContours)
                        /\ elevationContours' = c.elevationContours
                        /\ terrain' = "terrain"
                        /\ title' = "title"
                        /\ exception' = exception
                        /\ pc' = "finish"
       ELSE /\ calls' = Append(calls, "title_scalingRotating")
            /\ transforms' = transformsOf(<< "terrain" >>)
            /\ elevationContours' = << >>
            /\ terrain' = "terrain"
            /\ title' = "title"
            /\ exception' = exception
            /\ pc' = "finish"
            /\ UNCHANGED << contoursInvokedWith, contourPlanes, contoursWith >>
    /\ UNCHANGED << inputVars, _runIt, printMsg, warnings, inputDataVars, stickyOrigin,
                    files, rasterVars, downloads, meshVars, splitVars,
                    elevation, origin >>

\* bakingGrouping when bakeIt_, printOutput, elevation = elevationM.
\* printOutput binds bakedOrNot only when bakeIt_ is True or False.
Finish ==
    /\ pc = "finish"
    /\ \E bakeIt_ \in {"None", "True", "False"} :
         /\ calls' = IF bakeIt_ = "True"
                     THEN calls \o << "bakingGrouping", "printOutput" >>
                     ELSE Append(calls, "printOutput")
         /\ IF bakeIt_ = "None"
            THEN /\ Raise("UnboundLocalError")
                 /\ UNCHANGED outputVars
            ELSE /\ elevation' = elevationM
                 /\ UNCHANGED << terrain, elevationContours, title, origin, exception >>
                 /\ pc' = "done"
    /\ UNCHANGED << inputVars, _runIt, printMsg, warnings, inputDataVars, stickyOrigin,
                    files, rasterVars, downloads, geometryVars >>

Next ==
    \/ MainStart
    \/ CheckInputData
    \/ CheckObjRasterFile
    \/ CreateTerrainMeshBrep
    \/ SplitCreateStandColorTerrain
    \/ TitleScalingRotating
    \/ Finish

Spec == Init /\ [][Next]_vars

(***************************************************************************)
(* Properties                                                              *)
(***************************************************************************)
Called(f) == \E i \in DOMAIN calls : calls[i] = f

\* The run got through stage f without an exception.
Completed(f) == Called(f) /\ (pc = "raised" => calls[Len(calls)] # f)

\* The radius handed to distanceBetweenTwoPoints and the distance it found.
ClampCalled == Called("distanceBetweenTwoPoints")

NoTerrainBuilt ==
    /\ "tif" \notin downloads
    /\ ~Called("createTerrainMeshBrep")
    /\ ~Called("split_createStand_colorTerrain")
    /\ ~Called("title_scalingRotating")
    /\ terrain = "unset"

\* C1: whenever distanceBetweenTwoPoints is called for a location less than
\* 200 m from its latitude limit, it returns validVisibilityRadiusM = False
\* with no numeric corrected radius, and checkObjRasterFile reports the run
\* as invalid without asking for a raster.
C1_TooCloseFails ==
    (ClampCalled /\ distanceM(locationLatitudeD) < Metres(200)) =>
        /\ exception = "none"
        /\ clamp.validVisibilityRadiusM = FALSE
        /\ clamp.correctedMaskRadiusM.t \notin {"int", "float"}
        /\ valid_Obj_or_Raster_file = FALSE
        /\ pc = "done"
        /\ warnings = 1
        /\ NoTerrainBuilt

\* C2: whenever 200 m <= distance < requested radius, the result is not
\* valid, the corrected radius is the integer floor of the distance, it is
\* smaller than the requested radius and at least 200, and the run builds
\* no terrain and asks for no raster.
C2_RadiusTooLarge ==
    (/\ ClampCalled
     /\ distanceM(locationLatitudeD) >= Metres(200)
     /\ distanceM(locationLatitudeD) < maxVisibilityRadiusM.h) =>
        /\ clamp.validVisibilityRadiusM = FALSE
        /\ clamp.correctedMaskRadiusM.t = "int"
        /\ clamp.correctedMaskRadiusM.h % 2 = 0
        /\ clamp.correctedMaskRadiusM.h <= distanceM(locationLatitudeD)
        /\ distanceM(locationLatitudeD) < clamp.correctedMaskRadiusM.h + 2
        /\ clamp.correctedMaskRadiusM.h < maxVisibilityRadiusM.h
        /\ clamp.correctedMaskRadiusM.h >= Metres(200)
        /\ valid_Obj_or_Raster_file = FALSE
        /\ pc = "done"
        /\ NoTerrainBuilt

C2_Witness ==
    /\ ClampCalled
    /\ distanceM(locationLatitudeD) >= Metres(200)
    /\ distanceM(locationLatitudeD) < maxVisibilityRadiusM.h
    /\ distanceM(locationLatitudeD) % 2 = 1
    /\ pc = "done"

\* C3: whenever the distance is at least the requested radius (and at least
\* 200 m), the result is valid, the corrected radius is the requested radius
\* and the message is "ok".
C3_RadiusFits ==
    (/\ ClampCalled
     /\ distanceM(locationLatitudeD) >= Metres(200)
     /\ distanceM(locationLatitudeD) >= maxVisibilityRadiusM.h) =>
        /\ clamp.validVisibilityRadiusM = TRUE
        /\ clamp.correctedMaskRadiusM = maxVisibilityRadiusM
        /\ clamp.printMsg = "ok"

C3_Witness ==
    /\ ClampCalled
    /\ distanceM(locationLatitudeD) = maxVisibilityRadiusM.h
    /\ clamp.validVisibilityRadiusM

\* The radii checkInputData can hand to checkObjRasterFile.
RequestableRadii ==
    {validatedRadius(r).radius : r \in {x \in RadiusInputs : validatedRadius(x).valid}}

\* The corrected radius for the run's location and another radius r.
CorrectedFor(r) == radiusPolicy(distanceM(locationLatitudeD), r).correctedMaskRadiusM.h

WholeMetres(halves) == 2 * (halves \div 2)

ClampAnswered ==
    /\ ClampCalled
    /\ clamp.raised = "none"
    /\ distanceM(locationLatitudeD) >= Metres(200)

\* C4 as stated: for a fixed location at least 200 m from its limit, a larger
\* requested radius never gets a smaller corrected radius, and the corrected
\* radius is never above the requested radius.
C4_MonotoneAsStated ==
    ClampAnswered =>
        /\ clamp.correctedMaskRadiusM.h <= maxVisibilityRadiusM.h
        /\ \A r \in RequestableRadii :
              /\ r.h >= maxVisibilityRadiusM.h => CorrectedFor(r) >= clamp.correctedMaskRadiusM.h
              /\ r.h <= maxVisibilityRadiusM.h => CorrectedFor(r) <= clamp.correctedMaskRadiusM.h

\* C4 amended: a larger requested radius never gets a corrected radius below
\* the whole-metre floor of the smaller one's corrected radius, and the
\* corrected radius is never above the requested radius.
C4_MonotoneUpToFloor ==
    ClampAnswered =>
        /\ clamp.correctedMaskRadiusM.h <= maxVisibilityRadiusM.h
        /\ \A r \in RequestableRadii :
              /\ r.h >= maxVisibilityRadiusM.h =>
                    CorrectedFor(r) >= WholeMetres(clamp.correctedMaskRadiusM.h)
              /\ r.h <= maxVisibilityRadiusM.h =>
                    WholeMetres(CorrectedFor(r)) <= clamp.correctedMaskRadiusM.h

C4_Witness ==
    /\ ClampAnswered
    /\ clamp.validVisibilityRadiusM
    /\ \E r \in RequestableRadii :
          /\ r.h > maxVisibilityRadiusM.h
          /\ CorrectedFor(r) < clamp.correctedMaskRadiusM.h
          /\ CorrectedFor(r) = WholeMetres(clamp.correctedMaskRadiusM.h)

RadiusMessages ==
    {"radius_ input only supports values equal or larger than 20 meters.",
     "Radii longer than 100 000 meters (100 kilometers) are not supported"}

RadiusSupplied == ~IsNone(radius_)

RadiusOutOfRange == radius_.h < Metres(20) \/ radius_.h > Metres(100000)

\* C5: a supplied radius below 20 or above 100000 makes checkInputData
\* return validInputData = False with a message and every other value None,
\* and no asset lookup follows; a supplied radius in [20, 100000] is never
\* rejected for its value.
C5_RadiusRange ==
    (Called("checkInputData") /\ RadiusSupplied) =>
        /\ RadiusOutOfRange =>
              /\ validInputData = FALSE
              /\ printMsg \notin {"ok", "none"}
              /\ warnings = 1
              /\ maxVisibilityRadiusM = None
              /\ _type = None
              /\ typeLabel = "None"
              /\ standThickness = None
              /\ numOfContours = None
              /\ pc = "done"
              /\ ~Called("checkObjRasterFile")
              /\ downloads = {}
        /\ ~RadiusOutOfRange =>
              /\ printMsg \notin RadiusMessages
              /\ validInputData => maxVisibilityRadiusM.h >= Metres(200)

C5_Witness ==
    /\ Called("checkInputData")
    /\ RadiusSupplied
    /\ radius_.h > Metres(100000)
    /\ printMsg \in RadiusMessages

\* C6: when radius_ is not supplied the run uses a radius of 100 meters: the
\* validated radius is 100 and the cut is made with a radius of 100.
C6_DefaultRadius100 ==
    (IsNone(radius_) /\ validInputData) =>
        /\ maxVisibilityRadiusM.h = Metres(100)
        /\ Called("split_createStand_colorTerrain") =>
              /\ Completed("split_createStand_colorTerrain")
              /\ cuttingRadiusScaled = Metres(100) * 10

\* C7: in every run that reaches the cut, the cutting radius is the run's
\* radius when it is below 200 and 0.9 times it otherwise, for every type,
\* also when the radius is the default one (100 as documented, 200 as
\* validated).
C7_CuttingRadius ==
    Called("split_createStand_colorTerrain") =>
        /\ Completed("split_createStand_colorTerrain")
        /\ RadiusSupplied /\ radius_.h < Metres(200) => cuttingRadiusScaled = radius_.h * 10
        /\ RadiusSupplied /\ radius_.h >= Metres(200) => cuttingRadiusScaled = radius_.h * 9
        /\ IsNone(radius_) => cuttingRadiusScaled \in {Metres(100) * 10, Metres(200) * 9}

\* C8: a stand is built if and only if the validated standThickness is above
\* 0, and then its depth standThickness/100 is above 0.
C8_StandIffPositive ==
    Completed("split_createStand_colorTerrain") =>
        /\ standBuilt <=> standThickness.h > 0
        /\ standBuilt => standDepth > 0

\* C9: when numOfContours_ is not supplied, a run that reaches
\* title_scalingRotating calls createElevationContours with 10 contours.
C9_DefaultContours10 ==
    (IsNone(numOfContours_) /\ Called("title_scalingRotating")) =>
        /\ Called("createElevationContours")
        /\ contoursInvokedWith = PyInt(10)
        /\ elevationContours \notin {<< >>, NotAssigned}

\* C10: when numOfContours_ is 0 or negative, validation gives 0, the contour
\* result is empty and createElevationContours is never called.
C10_NoContours ==
    (~IsNone(numOfContours_) /\ numOfContours_.h <= 0) =>
        /\ ~Called("createElevationContours")
        /\ contoursInvokedWith = NotInvoked
        /\ validInputData => numOfContours = PyInt(0)
        /\ Called("title_scalingRotating") => elevationContours = << >>

C10_Witness ==
    /\ ~IsNone(numOfContours_)
    /\ numOfContours_.h < 0
    /\ Called("title_scalingRotating")
    /\ elevationContours = << >>

\* The contour planes as fractions of the vertical extent: plane i lies at
\* contourPlanes[i] / ContourSegments above the lowest height.
ContourSegments == contoursInvokedWith.h \div 2

EvenlySpacedInside(planes, segments) ==
    /\ \A i \in DOMAIN planes : 0 < planes[i] /\ planes[i] < segments
    /\ \A i \in DOMAIN planes : i > 1 => planes[i] - planes[i - 1] = planes[1]

\* C11: whenever createElevationContours is called with numOfContours = N > 0,
\* it makes exactly N slicing planes, evenly spaced along the vertical extent
\* of the terrain, none of them at the lowest or the highest height.
C11_PlaneCount ==
    Called("createElevationContours") =>
        /\ Len(contourPlanes) = ContourSegments
        /\ EvenlySpacedInside(contourPlanes, ContourSegments)

\* C12: after the split gave one or more fragments, the fragment kept has
\* the smallest centroid distance to locationPt, among equal smallest
\* distances it is the one with the lowest index, and when the smallest
\* distance is unique the same fragment is kept under every permutation of
\* the list of fragments.
C12_NearestFragmentKept ==
    Completed("split_createStand_colorTerrain") =>
        LET d == kernel.centroidDistances
            kept == terrain_MeshOrBrep_Splitted
        IN  /\ kept \in DOMAIN d
            /\ \A j \in DOMAIN d : d[kept] <= d[j]
            /\ \A j \in DOMAIN d : d[j] = d[kept] => kept <= j
            /\ (\A j \in DOMAIN d : j # kept => d[kept] < d[j]) =>
                  \A perm \in Permutations(DOMAIN d) :
                      perm[nearestFragment([n \in DOMAIN d |-> d[perm[n]]])] = kept

C12_Witness ==
    /\ Completed("split_createStand_colorTerrain")
    /\ Len(kernel.centroidDistances) = 3
    /\ kernel.centroidDistances[1] > kernel.centroidDistances[2]
    /\ kernel.centroidDistances[2] = kernel.centroidDistances[3]
    /\ terrain_MeshOrBrep_Splitted = 2

\* C13: when the ray cast down from above the origin does not meet the
\* terrain mesh, createTerrainMeshBrep fails: no locationPt and no elevation
\* are returned and neither the clip nor the placement runs.
C13_RayMissFails ==
    (Called("createTerrainMeshBrep") /\ kernel.rayIntersectParam < 0) =>
        /\ locationPt = "unset"
        /\ elevationM = "unset"
        /\ ~Called("split_createStand_colorTerrain")
        /\ ~Called("title_scalingRotating")
        /\ pc \in {"done", "raised"}

\* C14: for every raster header the list of points has numRows * numCols
\* points, made row by row (row outer, column inner), and every cell of the
\* raster is read exactly once.
C14_GridSize ==
    Called("createTerrainMeshBrep") =>
        /\ Len(terrainPts) = header.NumberRows * header.NumberCols
        /\ \A n \in DOMAIN terrainPts :
              terrainPts[n].read = [col |-> (n - 1) % header.NumberCols,
                                    row |-> (n - 1) \div header.NumberCols]
        /\ \A k \in 0..(header.NumberRows - 1), i \in 0..(header.NumberCols - 1) :
              Cardinality({n \in DOMAIN terrainPts :
                              terrainPts[n].read = [col |-> i, row |-> k]}) = 1

C14_Witness ==
    /\ Called("createTerrainMeshBrep")
    /\ header.NumberRows = 2
    /\ header.NumberCols = 2
    /\ Len(terrainPts) = 4
    /\ terrainPts[2].read = [col |-> 1, row |-> 0]

\* C15: for every header and projected location, the point of the lower left
\* cell (row numRows - 1, column 0) lies at scale * (lowerLeftCenter -
\* projected location) in x and in y, also when the two cell sizes differ.
C15_LowerLeftPlacement ==
    Called("createTerrainMeshBrep") =>
        LET p == terrainPts[(header.NumberRows - 1) * header.NumberCols + 1]
        IN  /\ p.read = [col |-> 0, row |-> header.NumberRows - 1]
            /\ p.x = 2 * (header.XllCenter - originPtProjected.X)
            /\ p.y = 2 * (header.YllCenter - originPtProjected.Y)

\* C16: in title_scalingRotating every geometry that is not null (the
\* terrain, each contour curve) gets exactly three transforms, in the order
\* translate, scale, rotate; a null contour gets none and the geometries
\* after it are still transformed.
C16_Transforms ==
    terrain = "terrain" =>
        LET geometry == << "terrain" >> \o elevationContours
        IN  /\ Len(transforms) = Len(geometry)
            /\ \A n \in DOMAIN geometry :
                  /\ geometry[n] # "null" =>
                        transforms[n] = << "originTransformMatrix",
                                           "scaleTransformMatrix",
                                           "rotateTransformMatrix" >>
                  /\ geometry[n] = "null" => transforms[n] = << >>

C16_Witness ==
    /\ terrain = "terrain"
    /\ elevationContours = << "null", "curve" >>
    /\ Len(transforms) = 3
    /\ transforms[3] # << >>

\* The main flow has come to the call of title_scalingRotating.
PlacementReached ==
    \/ pc = "title_scalingRotating"
    \/ Called("title_scalingRotating")
    \/ exception = "NameError"

\* C17: in every run whose asset lookup is reported valid, the placement
\* begins only after createTerrainMeshBrep and
\* split_createStand_colorTerrain have completed in that run and made the
\* terrain and the locationPt it takes, also when the .obj file is on disk
\* or is downloaded.
C17_PlacementAfterBuild ==
    (valid_Obj_or_Raster_file /\ PlacementReached) =>
        /\ Completed("createTerrainMeshBrep")
        /\ Completed("split_createStand_colorTerrain")
        /\ locationPt # "unset"
        /\ terrainUnoriginUnscaledUnrotated # "unset"
        /\ exception # "NameError"

\* The run ended with a reported failure.
RunFailed == pc = "done" /\ warnings > 0

\* C18: in every run that ends in a failure, none of the outputs terrain,
\* origin, elevation, elevationContours, title is populated.  (What
\* checkLocationData left in elevation is not counted here.)
C18_NoPartialOutput ==
    RunFailed =>
        /\ terrain = "unset"
        /\ origin \in {"unset", "None"}
        /\ elevation \in {"unset", "checkLocationData"}
        /\ elevationContours = NotAssigned
        /\ title = "unset"

\* C19: whenever a fetch fails in checkObjRasterFile (no connection, the
\* links file, a listed .obj, the raster), the function returns
\* valid_Obj_or_Raster_file = False with a message and no mesh build, clip
\* or placement runs.
C19_FetchErrorsAbort ==
    (Called("checkObjRasterFile") /\ fetchFailed # {}) =>
        /\ valid_Obj_or_Raster_file = FALSE
        /\ pc = "raised" \/ printMsg \notin {"ok", "none"}
        /\ ~Called("createTerrainMeshBrep")
        /\ ~Called("split_createStand_colorTerrain")
        /\ ~PlacementReached

\* The raster of this location and radius was in the folder at the start.
WarmStart == rasterFilePathOf(maxVisibilityRadiusM) \in filesAtStart

\* The answers e explain what checkObjRasterFile did in this run.
Explains(e) ==
    LET r == checkObjRasterFile(filesAtStart, locationLatitudeD, maxVisibilityRadiusM, e)
    IN  /\ r.branch = branch
        /\ r.files = files
        /\ r.failed = fetchFailed
        /\ r.clamp = clamp

\* Another invocation with the inputs of this run, started in folder fs and
\* given the answers e, does what this run did and leaves the folder as
\* this run left it.
SameAgain(fs, e) ==
    LET r == checkObjRasterFile(fs, locationLatitudeD, maxVisibilityRadiusM, e)
    IN  /\ r.raised = "none"
        /\ r.branch = branch
        /\ r.valid = valid_Obj_or_Raster_file
        /\ r.rasterFilePath = rasterFilePath
        /\ r.files = files

AllReturnedNone ==
    /\ maxVisibilityRadiusM = None
    /\ _type = None
    /\ typeLabel = "None"
    /\ standThickness = None
    /\ numOfContours = None
    /\ northRad = None
    /\ northDeg = None
    /\ origin = "None"

NorthSupplied == ~IsNone(north_)

NorthInRange == north_.h >= 0 /\ north_.h <= Metres(360)

\* C21: a numeric north is accepted only when it lies in 0..360; a numeric
\* north below 0 or above 360 gives validInputData = False with every other
\* returned value None; when north is not supplied and the inputs are
\* valid, northRad is 0 and northDeg is 0.
C21_NorthValidation ==
    Called("checkInputData") =>
        /\ (NorthSupplied /\ validInputData) => NorthInRange
        /\ (NorthSupplied /\ ~NorthInRange) => (~validInputData /\ AllReturnedNone)
        /\ (~NorthSupplied /\ validInputData) =>
               (northRad = PyInt(0) /\ northDeg = PyInt(0))

\* A north of 360.5 was refused with the message of the north test.
C21_Witness ==
    /\ Called("checkInputData")
    /\ north_ = PyFloat(Metres(360) + 1)
    /\ ~validInputData
    /\ printMsg = "Please input north angle value from 0 to 360."

\* The style and the label the validation is said to give for type_.
StyleLabels ==
    << "mesh-rectangular", "mesh-circular", "surface-rectangular", "surface-circular" >>

StatedStyle ==
    IF IsNone(type_) THEN 1
    ELSE IF type_.h \in {0, 2, 4, 6} THEN type_.h \div 2
    ELSE 0

StatedSplit == << "mesh, cuboid", "mesh, sphere", "surface, cuboid", "surface, sphere" >>

StatedIntersection == << "MeshPlane", "MeshPlane", "BrepPlane", "BrepPlane" >>

\* C22: for every integer type input the validated style is in 0..3 with
\* the matching label, a type that is not supplied gives 1, an integer
\* outside 0..3 gives 0, and the split and the contour extraction branch on
\* the validated value.
C22_StyleValidation ==
    /\ (Called("checkInputData") /\ validInputData) =>
           /\ _type = PyInt(StatedStyle)
           /\ typeLabel = StyleLabels[StatedStyle + 1]
    /\ splitWith # "unset" => splitWith = StatedSplit[StatedStyle + 1]
    /\ contoursWith # "unset" => contoursWith = StatedIntersection[StatedStyle + 1]

\* A type of 4 was validated to 0, the mesh was split with a cuboid and the
\* contours were asked of the mesh.
C22_Witness ==
    /\ type_ = PyInt(4)
    /\ _type = PyInt(0)
    /\ splitWith = "mesh, cuboid"
    /\ contoursWith = "MeshPlane"

\* C23: the loop on the longitude difference stops as soon as longitudeR
\* and longitudeR_ have converged, in every case after at most 100 passes,
\* and a loop that has not settled within the 100 passes produces a
\* NonConvergence advisory beside the distance.
C23_StopsWhenConverged ==
    (ClampCalled /\ inverse.raised = "none") =>
        /\ inverse.iterations <= RangeOfLoop
        /\ inverse.settledAfter > 0 => inverse.iterations = inverse.settledAfter
        /\ inverse.settledAfter = 0 => printMsg = "NonConvergence"

RasterPartReached == Len(branch) = 2

InsideCoverage ==
    locationLatitudeD >= Deg(-56) /\ locationLatitudeD <= Deg(60)

\* C25: the raster is requested only for a latitude inside [-56, 60]; for a
\* latitude north of 60 or south of -56, with no raster in the folder, the
\* raster part ends invalid and no raster download is issued.
C25_CoverageGuard ==
    /\ "tif" \in downloads => InsideCoverage
    /\ (RasterPartReached /\ rasterFilePathOf(maxVisibilityRadiusM) \notin filesAtStart
          /\ ~InsideCoverage) =>
           (~valid_Obj_or_Raster_file /\ "tif" \notin downloads)

\* C26: two different validated radii never give the same raster file
\* name: the name made for the radius of the run differs from the name
\* made for every other radius checkInputData can return.
C26_NamesDifferByRadius ==
    Called("checkObjRasterFile") =>
        \A r \in RequestableRadii :
            r.h # maxVisibilityRadiusM.h =>
                rasterFilePathOf(r) # rasterFilePathOf(maxVisibilityRadiusM)

\* C27: in every run that reaches the clipping, the clip radius is smaller
\* than the radius the raster window was computed with: cuttingRadiusScaled
\* is a hundredth of the clip radius, in metres.
C27_ClipInsideWindow ==
    Called("split_createStand_colorTerrain") =>
        /\ Completed("split_createStand_colorTerrain") \/ exception = "IndexError"
        /\ cuttingRadiusScaled < maxVisibilityRadiusM.h * 10

\* C28: when checkInputData returns validInputData = False, the session
\* store (the key gismo_terrainGeneratorComp_origin) and the file system
\* are as they were before the call.
C28_NoEffectOnFailure ==
    (Called("checkInputData") /\ ~validInputData) =>
        /\ stickyOrigin = "unset"
        /\ files = filesAtStart

\* The checks of the main flow, in the order of the code.
ChecksInOrder == << "has_key", "versionDate", "checkLocationData", "checkInputData" >>

NoLaterStage ==
    /\ ~Called("createTerrainMeshBrep")
    /\ ~Called("split_createStand_colorTerrain")
    /\ ~Called("title_scalingRotating")
    /\ ~Called("printOutput")
    /\ terrain = "unset"

C30_NoDivisionError ==
    ClampCalled =>
        /\ inverse.raised = "none"
        /\ exception # "ZeroDivisionError"
        /\ locationLatitudeD = Deg(-56) =>
               (~clamp.validVisibilityRadiusM /\ clamp.printMsg = TooClose.printMsg)

====
